---- MODULE Spec2Model ----
(***************************************************************************)
(* Air-hockey match loop (projects/W10BFinalProject/src/main.cpp).         *)
(*                                                                         *)
(* Lengths are in thousandths of a world unit (17.6f is 17600), colours in *)
(* thousandths of a channel (1.0f is 1000).  One frame of the game loop is *)
(* the sequence  glfwPollEvents  checkIsReseting [Sleep]  scoreCheckReset  *)
(* DoPhysics  input handling  goal detection, and pc is the position of    *)
(* the single thread in it.                                                *)
(*                                                                         *)
(* The specifications share the actions.  Spec is the match: the physics   *)
(* step moves the puck anywhere, nobody touches the keyboard or the mouse. *)
(* InputSpec is the same loop with a player at the keyboard and the mouse  *)
(* and a puck that stays between the goal lines.  BounceSpec is the        *)
(* BounceBehaviour component under the events the engine sends it.  The    *)
(* input handling writes the puck's force, the paddles and the cursor      *)
(* baseline only, the score machine reads none of them, and the physics    *)
(* step of Spec is unconstrained, so the split loses no behaviour of the   *)
(* score machine.                                                          *)
(* EdgeSpec is the loop with the trigger callbacks of the puck's component *)
(* arriving inside the physics step, and CountSpec is the frame delta and  *)
(* the countdown loop that stands between the physics step and the input   *)
(* handling; the countdown loop writes countDown only.                     *)
(***************************************************************************)
EXTENDS Integers, Sequences, FiniteSets, TLC

VARIABLES
    pc,            \* position of the game thread inside the frame
    lScore,        \* int lScore
    rScore,        \* int rScore
    resetCheck,    \* bool resetCheck
    Lights,        \* scene->Lights, index 0..9, fields Position and Color
    puckPosition,  \* gObj_puck->GetPosition()
    puckVelocity,  \* rigid_puck velocity
    puckPos,       \* the local glm::vec3 puckPos read by the goal detection
    out,           \* winner lines printed by the last scoreCheckReset call
    slept,         \* number of Sleep(1000) calls made by the last checkIsReseting call
    lGoals,        \* left goals scored since the initial scene (saturating)
    rGoals,        \* right goals scored since the initial scene (saturating)
    frameSteps,    \* the steps of the current frame that have completed, in order
    keyState,      \* GLFW: the keys that are down as of the last glfwPollEvents
    mouseState,    \* GLFW: mouse button 0 is down
    cursorPos,     \* GLFW: the cursor position in pixels
    windowSize,    \* GLFW: the window size in pixels
    prevMouse,     \* mouseState of the previous frame
    prevCursor,    \* cursorPos of the previous frame
    forceCalls,    \* the ApplyForce calls made on rigid_puck in the current frame
    paddle_R,      \* position of the object "Paddle_red"
    paddle_B,      \* position of the object "Paddle_blue"
    f0_cursorPos,  \* double f0_cursorPosX, f0_cursorPosY
    isFirstClick,  \* bool isFirstClick
    gameObjName,   \* BounceBehaviour: Name of the object the component is on
    gameObj,       \* BounceBehaviour::gameObj, "nullptr" or the object's name
    rigidOBJ,      \* BounceBehaviour::rigidOBJ, "nullptr" or "body"
    isInCollision, \* BounceBehaviour::isInCollision
    reflectionVelocity, \* BounceBehaviour::reflectionVelocity
    repelVelocity, \* BounceBehaviour::repelVelocity
    trigger,       \* rotation of the trigger volume of the last trigger event
    inside,        \* the trigger volumes the component's object is inside, by rotation
    bodyCalls,     \* calls the last step made on the rigid body, in order
    event,         \* the last callback the engine sent to the component
    countDown,     \* float countDown
    dt             \* float dt of the current frame, after dt *= playbackSpeed

scoreVars == <<lScore, rScore, resetCheck, Lights, puckPosition, puckPos, out,
               slept, lGoals, rGoals>>

glfwVars == <<keyState, mouseState, cursorPos, windowSize, prevMouse, prevCursor>>

inputVars == <<forceCalls, paddle_R, paddle_B, f0_cursorPos, isFirstClick>>

bounceVars == <<gameObjName, gameObj, rigidOBJ, isInCollision, reflectionVelocity,
                repelVelocity, trigger, inside, bodyCalls, event>>

timeVars == <<countDown, dt>>

vars == <<pc, frameSteps, puckVelocity, scoreVars, glfwVars, inputVars, bounceVars,
          timeVars>>

---------------------------------------------------------------------------
(* Bounds of the model *)

\* goals counted since the initial scene; lGoals and rGoals stop there
MaxGoals == 4

\* how far past a goal line (in thousandths) the physics step may put the puck
Overshoot == 400

\* the player of InputSpec lets go of W, A, S, D once the blue paddle is more
\* than this many key steps from its place in the scene on either axis
MaxPaddleSteps == 1

\* and of the mouse button once the red paddle is more than this many units
\* from its place in the scene on either axis
MaxDragUnits == 1

---------------------------------------------------------------------------
(* Program constants *)

black == <<0, 0, 0>>
yellow == <<1000, 1000, 0>>

\* the goal lines, puckPos.x <= -17.6f and puckPos.x >= 17.6f
GoalLine == 17600

\* a counter at WinScore or more wins the match
WinScore == 4

ZeroVec == <<0, 0, 0>>

\* the puck's position in the scene and after a reset
Centre == <<0, 0, 4000>>

\* where the puck is put after a goal of the right and of the left side
RightServe == <<9500, 0, -1000>>
LeftServe == <<-9500, 0, -1000>>

LightIdx == 0..9
Pips == 1..8

Min(a, b) == IF a < b THEN a ELSE b

---------------------------------------------------------------------------
(* Floating point values that are not numbers of the model *)

\* the float NaN; no velocity of the model is this large
NaN == 2000000000

\* a glm::vec3 member that no constructor has initialised
Indeterminate == <<NaN + 1, NaN + 1, NaN + 1>>

\* the rotation of no trigger volume, before the first trigger event
NoRotation == <<>>

---------------------------------------------------------------------------
(* The scene after CreateScene *)

InitLightPos ==
    [i \in LightIdx |->
        CASE i = 0 -> <<0, 0, 10000>>
          [] i = 1 -> <<-14840, 13340, -6560>>
          [] i = 2 -> <<-14720, -12980, -6620>>
          [] i = 3 -> <<-4460, 15460, -6590>>
          [] i = 4 -> <<-4450, -15180, -6600>>
          [] i = 5 -> <<15330, 13320, -6600>>
          [] i = 6 -> <<15040, -13320, -6570>>
          [] i = 7 -> <<4350, 15380, -6570>>
          [] i = 8 -> <<4540, -15540, -6570>>
          [] OTHER -> <<0, 0, 10000>>]

InitLightColor ==
    [i \in LightIdx |->
        CASE i = 0 -> <<1000, 1000, 1000>>
          [] i = 9 -> <<43, 43, 0>>
          [] OTHER -> black]

InitLights ==
    [i \in LightIdx |-> [Position |-> InitLightPos[i], Color |-> InitLightColor[i]]]

---------------------------------------------------------------------------
(* What the physics step can do to the puck: the rigid body simulation is  *)
(* an external collaborator, so the step picks any of these.               *)

PuckXs == {-(GoalLine + Overshoot), -GoalLine, -(GoalLine - 10), 0,
           GoalLine - 10, GoalLine, GoalLine + Overshoot}
PuckYs == {0, 2500}
PuckPositions == {<<x, y, -1000>> : x \in PuckXs, y \in PuckYs}
PuckVelocities == {ZeroVec, <<-3000, 4000, 0>>}

---------------------------------------------------------------------------
(* RigidBody::resetVelocity *)
resetVelocity == ZeroVec

(* lightReset() with the loop stopping one light early *)
lightReset_short(L) ==
    [i \in LightIdx |-> IF i >= 1 /\ i < 8 THEN [L[i] EXCEPT !.Color = black] ELSE L[i]]

(* lightReset() with the loop starting at light 0 *)
lightReset_fromZero(L) ==
    [i \in LightIdx |-> IF i >= 0 /\ i < 9 THEN [L[i] EXCEPT !.Color = black] ELSE L[i]]

(* lightReset(): lights 1..8 go back to black *)
lightReset(L) ==
    [i \in LightIdx |-> IF i >= 1 /\ i < 9 THEN [L[i] EXCEPT !.Color = black] ELSE L[i]]

(* scoreCheck(isLeft) lighting the light of the count before the increment *)
scoreCheck_offByOne(isLeft, s) ==
    IF isLeft
    THEN [s EXCEPT !.l = s.l + 1, !.L[s.l].Color = yellow]
    ELSE [s EXCEPT !.r = s.r + 1, !.L[s.r + 4].Color = yellow]

(* scoreCheck(isLeft) without the + 4 of the right side *)
scoreCheck_noOffset(isLeft, s) ==
    IF isLeft
    THEN [s EXCEPT !.l = s.l + 1, !.L[s.l + 1].Color = yellow]
    ELSE [s EXCEPT !.r = s.r + 1, !.L[s.r + 1].Color = yellow]

(* scoreCheck(isLeft) on the state s = [l, r, L] *)
scoreCheck(isLeft, s) ==
    IF isLeft
    THEN [s EXCEPT !.l = s.l + 1, !.L[s.l + 1].Color = yellow]
    ELSE [s EXCEPT !.r = s.r + 1, !.L[s.r + 1 + 4].Color = yellow]

(* the left win branch leaving the right counter as it is *)
RedWins_keepsR(s) ==
    IF s.l >= WinScore
    THEN [l |-> 0, r |-> s.r, flag |-> TRUE, out |-> Append(s.out, "Red")]
    ELSE s

(* the left win branch testing lScore > 4 *)
RedWins_strict(s) ==
    IF s.l > WinScore
    THEN [l |-> 0, r |-> 0, flag |-> TRUE, out |-> Append(s.out, "Red")]
    ELSE s

(* the right win branch without resetCheck = true *)
BlueWins_noFlag(s) ==
    IF s.r >= WinScore
    THEN [l |-> 0, r |-> 0, flag |-> s.flag, out |-> Append(s.out, "Blue")]
    ELSE s

(* scoreCheckReset() on the state s = [l, r, flag, out]: the two tests run *)
(* one after the other, the second on what the first left.                 *)
RedWins(s) ==
    IF s.l >= WinScore
    THEN [l |-> 0, r |-> 0, flag |-> TRUE, out |-> Append(s.out, "Red")]
    ELSE s

BlueWins(s) ==
    IF s.r >= WinScore
    THEN [l |-> 0, r |-> 0, flag |-> TRUE, out |-> Append(s.out, "Blue")]
    ELSE s

scoreCheckReset(s) == BlueWins(RedWins(s))

(* the right goal serving the puck on the left side *)
RightGoal_wrongSide(p, s) ==
    IF p[1] <= -GoalLine
    THEN LET t == scoreCheck(FALSE, [l |-> s.l, r |-> s.r, L |-> s.L])
         IN  [l |-> t.l, r |-> t.r, L |-> t.L, pos |-> LeftServe, vel |-> resetVelocity]
    ELSE s

(* the left goal testing puckPos.x > 17.6f *)
LeftGoal_strict(p, s) ==
    IF p[1] > GoalLine
    THEN LET t == scoreCheck(TRUE, [l |-> s.l, r |-> s.r, L |-> s.L])
         IN  [l |-> t.l, r |-> t.r, L |-> t.L, pos |-> LeftServe, vel |-> resetVelocity]
    ELSE s

(* the left goal firing past either goal line *)
LeftGoal_anySide(p, s) ==
    IF p[1] >= GoalLine \/ p[1] <= -GoalLine
    THEN LET t == scoreCheck(TRUE, [l |-> s.l, r |-> s.r, L |-> s.L])
         IN  [l |-> t.l, r |-> t.r, L |-> t.L, pos |-> LeftServe, vel |-> resetVelocity]
    ELSE s

(* the right goal firing past either goal line *)
RightGoal_anySide(p, s) ==
    IF p[1] <= -GoalLine \/ p[1] >= GoalLine
    THEN LET t == scoreCheck(FALSE, [l |-> s.l, r |-> s.r, L |-> s.L])
         IN  [l |-> t.l, r |-> t.r, L |-> t.L, pos |-> RightServe, vel |-> resetVelocity]
    ELSE s

(* The goal detection of main on the state s = [l, r, L, pos, vel], with   *)
(* p the puck position read once before both tests.                        *)
RightGoal(p, s) ==
    IF p[1] <= -GoalLine
    THEN LET t == scoreCheck(FALSE, [l |-> s.l, r |-> s.r, L |-> s.L])
         IN  [l |-> t.l, r |-> t.r, L |-> t.L, pos |-> RightServe, vel |-> resetVelocity]
    ELSE s

LeftGoal(p, s) ==
    IF p[1] >= GoalLine
    THEN LET t == scoreCheck(TRUE, [l |-> s.l, r |-> s.r, L |-> s.L])
         IN  [l |-> t.l, r |-> t.r, L |-> t.L, pos |-> LeftServe, vel |-> resetVelocity]
    ELSE s

GoalCheck(p, s) == LeftGoal(p, RightGoal(p, s))

(* scene->Lights[9].Position follows the puck, 3 units above it *)
FollowPuck(L, pos) ==
    [L EXCEPT ![9].Position = <<pos[1], pos[2], pos[3] + 3000>>]

---------------------------------------------------------------------------
(* The order of the statements of one iteration of the game loop *)

(* the loop with scoreCheckReset() before checkIsReseting() *)
After_winFirst(p) ==
    CASE p = "head" -> "win"
      [] p = "win" -> "reset"
      [] p = "reset" -> "physics"
      [] p = "physics" -> "input"
      [] p = "input" -> "goal"
      [] OTHER -> "head"

(* the loop with the goal detection before the physics step *)
After_goalFirst(p) ==
    CASE p = "head" -> "reset"
      [] p = "reset" -> "win"
      [] p = "win" -> "input"
      [] p = "input" -> "goal"
      [] p = "goal" -> "physics"
      [] OTHER -> "head"

After(p) ==
    CASE p = "head" -> "reset"
      [] p = "reset" -> "win"
      [] p = "win" -> "physics"
      [] p = "physics" -> "input"
      [] p = "input" -> "goal"
      [] OTHER -> "head"

---------------------------------------------------------------------------
(* Keyboard and mouse *)

ArrowKeys == {"UP", "DOWN", "RIGHT", "LEFT"}
PaddleKeys == {"W", "A", "S", "D"}

\* the places of the paddles in the scene
RedStart == <<-5000, 0, -8010>>
BlueStart == <<5000, 0, -8010>>

VAdd(a, b) == <<a[1] + b[1], a[2] + b[2], a[3] + b[3]>>

Abs(a) == IF a < 0 THEN -a ELSE a

(* the four arrow key tests chained with else *)
KeyForces_elseIf(calls, keys) ==
    IF "UP" \in keys THEN Append(calls, <<0, 10000, 0>>)
    ELSE IF "DOWN" \in keys THEN Append(calls, <<0, -10000, 0>>)
    ELSE IF "RIGHT" \in keys THEN Append(calls, <<10000, 0, 0>>)
    ELSE IF "LEFT" \in keys THEN Append(calls, <<-10000, 0, 0>>)
    ELSE calls

(* the four arrow key tests of main: the ApplyForce calls on rigid_puck *)
KeyForces(calls, keys) ==
    LET c1 == IF "UP" \in keys THEN Append(calls, <<0, 10000, 0>>) ELSE calls
        c2 == IF "DOWN" \in keys THEN Append(c1, <<0, -10000, 0>>) ELSE c1
        c3 == IF "RIGHT" \in keys THEN Append(c2, <<10000, 0, 0>>) ELSE c2
        c4 == IF "LEFT" \in keys THEN Append(c3, <<-10000, 0, 0>>) ELSE c3
    IN  c4

(* cursorX / doub_winX with doub_winX = (double)windowX / 2, in thousandths *)
Normalised(c, w) == (2 * c * 1000) \div w

(* Red Paddle Control without the unconditional cursor read that ends it *)
RedPaddleControl_noLatch(s, mouse, cursor, window) ==
    IF mouse
    THEN IF ~s.first
         THEN LET cursorX == Normalised(cursor[1], window[1])
                  cursorY == Normalised(cursor[2], window[2])
                  f0X == Normalised(s.f0[1], window[1])
                  f0Y == Normalised(s.f0[2], window[2])
                  dCursorPos == <<cursorX - f0X, -(cursorY - f0Y), 0>>
              IN  [s EXCEPT !.pos = VAdd(s.pos, <<dCursorPos[1] * 20, dCursorPos[2] * 20,
                                                  dCursorPos[3] * 20>>)]
         ELSE [s EXCEPT !.f0 = cursor, !.first = FALSE]
    ELSE s

(* Red Paddle Control with isFirstClick set again when the button is up *)
RedPaddleControl_rearm(s, mouse, cursor, window) ==
    LET t == IF mouse
             THEN IF ~s.first
                  THEN LET cursorX == Normalised(cursor[1], window[1])
                           cursorY == Normalised(cursor[2], window[2])
                           f0X == Normalised(s.f0[1], window[1])
                           f0Y == Normalised(s.f0[2], window[2])
                           dCursorPos == <<cursorX - f0X, -(cursorY - f0Y), 0>>
                       IN  [s EXCEPT !.pos = VAdd(s.pos, <<dCursorPos[1] * 20,
                                                           dCursorPos[2] * 20,
                                                           dCursorPos[3] * 20>>)]
                  ELSE [s EXCEPT !.f0 = cursor, !.first = FALSE]
             ELSE [s EXCEPT !.first = TRUE]
    IN  [t EXCEPT !.f0 = cursor]

(* Red Paddle Control of main on s = [pos, f0, first]: the paddle position, *)
(* f0_cursorPos and isFirstClick.  The f0_cursorPos /= doub_win of the     *)
(* move branch is overwritten by the cursor read that ends the block.      *)
RedPaddleControl(s, mouse, cursor, window) ==
    LET t == IF mouse
             THEN IF ~s.first
                  THEN LET cursorX == Normalised(cursor[1], window[1])
                           cursorY == Normalised(cursor[2], window[2])
                           f0X == Normalised(s.f0[1], window[1])
                           f0Y == Normalised(s.f0[2], window[2])
                           dCursorPos == <<cursorX - f0X, -(cursorY - f0Y), 0>>
                       IN  [s EXCEPT !.pos = VAdd(s.pos, <<dCursorPos[1] * 20,
                                                           dCursorPos[2] * 20,
                                                           dCursorPos[3] * 20>>)]
                  ELSE [s EXCEPT !.f0 = cursor, !.first = FALSE]
             ELSE s
    IN  [t EXCEPT !.f0 = cursor]

(* Paddle B control of main: pbPos is read once, each pressed key sets the *)
(* position from pbPos, keyMoveSpeed = 0.1f                                *)
BluePaddleControl(pos, keys) ==
    LET pbPos == pos
        p1 == IF "W" \in keys THEN <<pbPos[1], pbPos[2] + 100, pbPos[3]>> ELSE pos
        p2 == IF "A" \in keys THEN <<pbPos[1] - 100, pbPos[2], pbPos[3]>> ELSE p1
        p3 == IF "S" \in keys THEN <<pbPos[1], pbPos[2] - 100, pbPos[3]>> ELSE p2
        p4 == IF "D" \in keys THEN <<pbPos[1] + 100, pbPos[2], pbPos[3]>> ELSE p3
    IN  p4

(* What glfwPollEvents can report.  In the match nobody is at the controls. *)
IdleCursor == <<960, 540>>
FullWindow == <<1920, 1080>>

IdleEnv == {[keys |-> {}, mouse |-> FALSE, cursor |-> IdleCursor, window |-> FullWindow]}

(* The player presses any set of arrow keys or any set of W, A, S, D, holds *)
(* or releases the mouse button, moves the cursor, resizes the window.     *)
(* The keys are pressed with the mouse at rest, and the mouse is used with  *)
(* no key or with UP, W and D down: the three blocks of the input handling *)
(* write different objects.                                                *)
PlayKeys == SUBSET ArrowKeys \cup SUBSET PaddleKeys
MouseKeys == {{}, {"UP", "W", "D"}}
PlayCursors == {IdleCursor, <<1008, 513>>}
PlayWindows == {FullWindow, <<960, 540>>}

PlayEnv ==
    {[keys |-> k, mouse |-> FALSE, cursor |-> IdleCursor, window |-> FullWindow] :
        k \in PlayKeys}
    \cup
    {[keys |-> k, mouse |-> m, cursor |-> c, window |-> w] :
        k \in MouseKeys, m \in BOOLEAN, c \in PlayCursors, w \in PlayWindows}

BlueNear ==
    /\ Abs(paddle_B[1] - BlueStart[1]) <= MaxPaddleSteps * 100
    /\ Abs(paddle_B[2] - BlueStart[2]) <= MaxPaddleSteps * 100

RedNear ==
    /\ Abs(paddle_R[1] - RedStart[1]) <= MaxDragUnits * 1000
    /\ Abs(paddle_R[2] - RedStart[2]) <= MaxDragUnits * 1000

(* where the puck of InputSpec rests *)
QuietPositions == {<<0, 0, -1000>>}


---------------------------------------------------------------------------
(* Bounds of the bounce model *)

\* trigger volumes that overlap at one place
MaxInside == 2

\* rebounds followed after a bounce before the physics step changes the
\* velocity again
MaxRebounds == 0


---------------------------------------------------------------------------
(* float and glm arithmetic of BounceBehaviour, in thousandths *)

IsNaN(a) == a >= NaN
HasNaN(v) == IsNaN(v[1]) \/ IsNaN(v[2]) \/ IsNaN(v[3])
NaNVec == <<NaN, NaN, NaN>>

FAdd(a, b) == IF IsNaN(a) \/ IsNaN(b) THEN NaN ELSE a + b
FSub(a, b) == IF IsNaN(a) \/ IsNaN(b) THEN NaN ELSE a - b
FMul(a, b) == IF IsNaN(a) \/ IsNaN(b) THEN NaN ELSE (a * b) \div 1000

RECURSIVE SqrtIn(_, _, _)
SqrtIn(n, lo, hi) ==
    IF lo = hi THEN lo
    ELSE LET mid == (lo + hi + 1) \div 2
         IN  IF mid * mid <= n THEN SqrtIn(n, mid, hi) ELSE SqrtIn(n, lo, mid - 1)

Sqrt(n) == SqrtIn(n, 0, 46340)

(* a vector with its z component set to 0.0f *)
Flat(v) == <<v[1], v[2], 0>>

(* glm::dot *)
Dot(a, b) == FAdd(FAdd(FMul(a[1], b[1]), FMul(a[2], b[2])), FMul(a[3], b[3]))

(* glm::length *)
Length(v) == IF HasNaN(v) THEN NaN ELSE Sqrt(v[1] * v[1] + v[2] * v[2] + v[3] * v[3])

(* vector times scalar *)
Scale(v, k) == <<FMul(v[1], k), FMul(v[2], k), FMul(v[3], k)>>

(* glm::normalize, v * inversesqrt(dot(v, v)): the zero vector gives       *)
(* 0 * infinity, which is NaN, in every component                          *)
Normalize(v) ==
    IF HasNaN(v) \/ Length(v) = 0
    THEN NaNVec
    ELSE LET len == Length(v)
         IN  <<(v[1] * 1000) \div len, (v[2] * 1000) \div len, (v[3] * 1000) \div len>>

(* glm::reflect(I, N), I - N * dot(N, I) * 2 *)
Reflect(I, N) ==
    LET d == Dot(N, I)
    IN  <<FSub(I[1], FMul(FMul(N[1], d), 2000)),
          FSub(I[2], FMul(FMul(N[2], d), 2000)),
          FSub(I[3], FMul(FMul(N[3], d), 2000))>>

(* a rotation is the rows of its matrix; about z by the angle of cosine c  *)
(* and sine s, and about x by 90 degrees                                   *)
RotZ(c, s) == << <<c, -s, 0>>, <<s, c, 0>>, <<0, 0, 1000>> >>
RotX90 == << <<1000, 0, 0>>, <<0, 0, -1000>>, <<0, 1000, 0>> >>

(* glm::vec4(v, 1.0) * rot, which is inverse(rot) * v: the transposed      *)
(* matrix applied to v                                                     *)
VecTimesQuat(v, rot) ==
    <<FAdd(FAdd(FMul(rot[1][1], v[1]), FMul(rot[2][1], v[2])), FMul(rot[3][1], v[3])),
      FAdd(FAdd(FMul(rot[1][2], v[1]), FMul(rot[2][2], v[2])), FMul(rot[3][2], v[3])),
      FAdd(FAdd(FMul(rot[1][3], v[1]), FMul(rot[2][3], v[2])), FMul(rot[3][3], v[3]))>>

(* the forward normal of the trigger's object turned inside and flattened *)
EdgeVec(rot) ==
    LET forwVec == <<0, 1000, 0>>
        e == VecTimesQuat(forwVec, rot)
    IN  <<FMul(e[1], -1000), e[2], 0>>

(* refVelo without the 0.5f of the scale *)
BounceImpulse_noHalf(velocity, rot) ==
    LET rigiVelo == Flat(velocity)
        speed == Length(rigiVelo)
        refVelo == Flat(Reflect(Normalize(rigiVelo), Normalize(EdgeVec(rot))))
    IN  Scale(refVelo, speed)

(* refVelo of OnEnteredTrigger: the flattened velocity reflected about the *)
(* edge normal, both normalised, scaled by half the flattened speed        *)
BounceImpulse(velocity, rot) ==
    LET rigiVelo == Flat(velocity)
        speed == Length(rigiVelo)
        refVelo == Flat(Reflect(Normalize(rigiVelo), Normalize(EdgeVec(rot))))
    IN  Scale(refVelo, FMul(speed, 500))

(* RigidBody::ApplyImpulse: the impulse is added to the body's velocity *)
ApplyImpulse(velocity, impulse) ==
    <<FAdd(velocity[1], impulse[1]), FAdd(velocity[2], impulse[2]),
      FAdd(velocity[3], impulse[3])>>

(* the objects a BounceBehaviour is put on *)
BounceOwners == {"Puck", "Edge", "Paddle_red"}

(* the rotations of the objects that carry a trigger volume *)
TriggerRotations ==
    {RotZ(1000, 0), RotZ(0, 1000), RotZ(600, 800), RotZ(800, -600), RotX90}

(* the velocities the physics step gives the puck's body *)
BodyVelocities ==
    {ZeroVec, <<3000, 4000, 0>>, <<-4000, 3000, 0>>, <<5000, 0, 0>>,
     <<3000, 4000, 12000>>, <<0, 0, 5000>>}

(* the speed in the play plane of the moving velocities of BodyVelocities *)
StartSpeed == Length(<<3000, 4000, 0>>)

RECURSIVE Pow2(_)
Pow2(n) == IF n = 0 THEN 1 ELSE 2 * Pow2(n - 1)

(* the velocities at which the rebound is followed *)
Followed(v) ==
    IF HasNaN(v) \/ Length(Flat(v)) = 0
    THEN TRUE
    ELSE Length(Flat(v)) * Pow2(MaxRebounds) >= StartSpeed

---------------------------------------------------------------------------
Init ==
    /\ pc = "head"
    /\ frameSteps = <<>>
    /\ lScore = 0
    /\ rScore = 0
    /\ resetCheck = FALSE
    /\ Lights = InitLights
    /\ puckPosition = Centre
    /\ puckVelocity = ZeroVec
    /\ puckPos = Centre
    /\ out = <<>>
    /\ slept = 0
    /\ lGoals = 0
    /\ rGoals = 0
    /\ keyState = {}
    /\ mouseState = FALSE
    /\ cursorPos = IdleCursor
    /\ windowSize = FullWindow
    /\ prevMouse = FALSE
    /\ prevCursor = IdleCursor
    /\ forceCalls = <<>>
    /\ paddle_R = RedStart
    /\ paddle_B = BlueStart
    /\ f0_cursorPos = <<0, 0>>
    /\ isFirstClick = TRUE
    /\ gameObjName = "Puck"
    /\ gameObj = "Puck"
    /\ rigidOBJ = "body"
    /\ isInCollision = FALSE
    /\ reflectionVelocity = Indeterminate
    /\ repelVelocity = Indeterminate
    /\ trigger = NoRotation
    /\ inside = {}
    /\ bodyCalls = <<>>
    /\ event = "none"
    /\ countDown = 2000
    /\ dt = 0

(* glfwPollEvents() at the head of the loop: GLFW takes the state of the   *)
(* keys, the button, the cursor and the window from env                    *)
PollEventsOf(env) ==
    /\ pc = "head"
    /\ \E e \in env :
         /\ (e.keys \cap PaddleKeys # {}) => BlueNear
         /\ e.mouse => RedNear
         /\ keyState' = e.keys
         /\ mouseState' = e.mouse
         /\ cursorPos' = e.cursor
         /\ windowSize' = e.window
    /\ prevMouse' = mouseState
    /\ prevCursor' = cursorPos
    /\ frameSteps' = <<>>
    /\ forceCalls' = <<>>
    /\ pc' = After("head")
    /\ UNCHANGED <<puckVelocity, scoreVars, paddle_R, paddle_B, f0_cursorPos,
                   isFirstClick, bounceVars, timeVars>>

PollEvents == PollEventsOf(IdleEnv)

PlayPollEvents == PollEventsOf(PlayEnv)

(* checkIsReseting() without the test of resetCheck *)
CheckIsReseting_always ==
    /\ pc = "reset"
    /\ puckPosition' = Centre
    /\ Lights' = lightReset(Lights)
    /\ resetCheck' = FALSE
    /\ pc' = "sleep"
    /\ slept' = 0
    /\ frameSteps' = frameSteps
    /\ UNCHANGED <<lScore, rScore, puckVelocity, puckPos, out, lGoals, rGoals>>
    /\ UNCHANGED <<glfwVars, inputVars, bounceVars, timeVars>>

(* checkIsReseting() without resetCheck = false *)
CheckIsReseting_keepsFlag ==
    /\ pc = "reset"
    /\ IF resetCheck = TRUE
       THEN /\ puckPosition' = Centre
            /\ Lights' = lightReset(Lights)
            /\ resetCheck' = resetCheck
            /\ pc' = "sleep"
            /\ frameSteps' = frameSteps
       ELSE /\ pc' = After("reset")
            /\ frameSteps' = Append(frameSteps, "checkIsReseting")
            /\ UNCHANGED <<puckPosition, Lights, resetCheck>>
    /\ slept' = 0
    /\ UNCHANGED <<lScore, rScore, puckVelocity, puckPos, out, lGoals, rGoals>>
    /\ UNCHANGED <<glfwVars, inputVars, bounceVars, timeVars>>

(* checkIsReseting(), up to its call of Sleep *)
CheckIsReseting ==
    /\ pc = "reset"
    /\ IF resetCheck = TRUE
       THEN /\ puckPosition' = Centre
            /\ Lights' = lightReset(Lights)
            /\ resetCheck' = FALSE
            /\ pc' = "sleep"
            /\ frameSteps' = frameSteps
       ELSE /\ pc' = After("reset")
            /\ frameSteps' = Append(frameSteps, "checkIsReseting")
            /\ UNCHANGED <<puckPosition, Lights, resetCheck>>
    /\ slept' = 0
    /\ UNCHANGED <<lScore, rScore, puckVelocity, puckPos, out, lGoals, rGoals>>
    /\ UNCHANGED <<glfwVars, inputVars, bounceVars, timeVars>>

(* Sleep(1000) returns and checkIsReseting with it *)
SleepReturn ==
    /\ pc = "sleep"
    /\ slept' = slept + 1
    /\ pc' = After("reset")
    /\ frameSteps' = Append(frameSteps, "checkIsReseting")
    /\ UNCHANGED <<lScore, rScore, resetCheck, Lights, puckPosition, puckVelocity,
                   puckPos, out, lGoals, rGoals>>
    /\ UNCHANGED <<glfwVars, inputVars, bounceVars, timeVars>>

(* scoreCheckReset() *)
ScoreCheckReset ==
    /\ pc = "win"
    /\ LET s == scoreCheckReset([l |-> lScore, r |-> rScore, flag |-> resetCheck, out |-> <<>>])
       IN  /\ lScore' = s.l
           /\ rScore' = s.r
           /\ resetCheck' = s.flag
           /\ out' = s.out
    /\ pc' = After("win")
    /\ frameSteps' = Append(frameSteps, "scoreCheckReset")
    /\ UNCHANGED <<Lights, puckPosition, puckVelocity, puckPos, slept, lGoals, rGoals>>
    /\ UNCHANGED <<glfwVars, inputVars, bounceVars, timeVars>>

(* scene->Update(dt); scene->DoPhysics(dt): the simulation puts the puck at *)
(* one of positions with one of velocities                                 *)
PhysicsStep(positions, velocities) ==
    /\ pc = "physics"
    /\ puckPosition' \in positions
    /\ puckVelocity' \in velocities
    /\ pc' = After("physics")
    /\ frameSteps' = Append(frameSteps, "physics")
    /\ UNCHANGED <<lScore, rScore, resetCheck, Lights, puckPos, out, slept, lGoals, rGoals>>
    /\ UNCHANGED <<glfwVars, inputVars, bounceVars, timeVars>>

DoPhysics == PhysicsStep(PuckPositions \cup {puckPosition}, PuckVelocities)

QuietPhysics == PhysicsStep(QuietPositions, {ZeroVec})

(* the input handling with the continuous bounce block that is commented   *)
(* out of main                                                             *)
Input_continuousBounce ==
    /\ pc = "input"
    /\ IF isInCollision
       THEN /\ puckVelocity' = ApplyImpulse(resetVelocity, repelVelocity)
            /\ bodyCalls' = <<[fn |-> "resetVelocity", arg |-> ZeroVec],
                              [fn |-> "ApplyImpulse", arg |-> repelVelocity]>>
       ELSE UNCHANGED <<puckVelocity, bodyCalls>>
    /\ forceCalls' = KeyForces(forceCalls, keyState)
    /\ LET s == RedPaddleControl([pos |-> paddle_R, f0 |-> f0_cursorPos,
                                  first |-> isFirstClick],
                                 mouseState, cursorPos, windowSize)
       IN  /\ paddle_R' = s.pos
           /\ f0_cursorPos' = s.f0
           /\ isFirstClick' = s.first
    /\ paddle_B' = BluePaddleControl(paddle_B, keyState)
    /\ pc' = After("input")
    /\ frameSteps' = Append(frameSteps, "input")
    /\ UNCHANGED <<scoreVars, glfwVars, gameObjName, gameObj, rigidOBJ, isInCollision,
                   reflectionVelocity, repelVelocity, trigger, inside, event, timeVars>>

(* the puck keys, Red Paddle Control and Paddle B control of main *)
Input ==
    /\ pc = "input"
    /\ forceCalls' = KeyForces(forceCalls, keyState)
    /\ LET s == RedPaddleControl([pos |-> paddle_R, f0 |-> f0_cursorPos,
                                  first |-> isFirstClick],
                                 mouseState, cursorPos, windowSize)
       IN  /\ paddle_R' = s.pos
           /\ f0_cursorPos' = s.f0
           /\ isFirstClick' = s.first
    /\ paddle_B' = BluePaddleControl(paddle_B, keyState)
    /\ pc' = After("input")
    /\ frameSteps' = Append(frameSteps, "input")
    /\ UNCHANGED <<puckVelocity, scoreVars, glfwVars, bounceVars, timeVars>>

(* the goal detection with light 9 placed from the position read before  *)
(* the teleport                                                           *)
GoalDetection_staleLight ==
    /\ pc = "goal"
    /\ puckPos' = puckPosition
    /\ LET s == GoalCheck(puckPosition,
                          [l |-> lScore, r |-> rScore, L |-> Lights,
                           pos |-> puckPosition, vel |-> puckVelocity])
       IN  /\ lScore' = s.l
           /\ rScore' = s.r
           /\ puckPosition' = s.pos
           /\ puckVelocity' = s.vel
           /\ Lights' = FollowPuck(s.L, puckPosition)
           /\ lGoals' = Min(lGoals + (s.l - lScore), MaxGoals)
           /\ rGoals' = Min(rGoals + (s.r - rScore), MaxGoals)
    /\ pc' = After("goal")
    /\ frameSteps' = Append(frameSteps, "goal")
    /\ UNCHANGED <<resetCheck, out, slept>>
    /\ UNCHANGED <<glfwVars, inputVars, bounceVars, timeVars>>

(* the goal detection, Lights[9] and the end of the frame *)
GoalDetection ==
    /\ pc = "goal"
    /\ puckPos' = puckPosition
    /\ LET s == GoalCheck(puckPosition,
                          [l |-> lScore, r |-> rScore, L |-> Lights,
                           pos |-> puckPosition, vel |-> puckVelocity])
       IN  /\ lScore' = s.l
           /\ rScore' = s.r
           /\ puckPosition' = s.pos
           /\ puckVelocity' = s.vel
           /\ Lights' = FollowPuck(s.L, s.pos)
           /\ lGoals' = Min(lGoals + (s.l - lScore), MaxGoals)
           /\ rGoals' = Min(rGoals + (s.r - rScore), MaxGoals)
    /\ pc' = After("goal")
    /\ frameSteps' = Append(frameSteps, "goal")
    /\ UNCHANGED <<resetCheck, out, slept>>
    /\ UNCHANGED <<glfwVars, inputVars, bounceVars, timeVars>>

Next ==
    \/ PollEvents
    \/ CheckIsReseting
    \/ SleepReturn
    \/ ScoreCheckReset
    \/ DoPhysics
    \/ Input
    \/ GoalDetection

Spec == Init /\ [][Next]_vars

(* the frame loop keeps running *)
FairSpec == Spec /\ WF_vars(Next)

(* The loop with a player at the controls and a puck that stays in play *)
InputNext ==
    \/ PlayPollEvents
    \/ CheckIsReseting
    \/ ScoreCheckReset
    \/ QuietPhysics
    \/ Input
    \/ GoalDetection

InputSpec == Init /\ [][InputNext]_vars

---------------------------------------------------------------------------
(* The BounceBehaviour component *)

(* the component as its constructor leaves it, on any of the objects *)
BounceInit ==
    /\ pc = "head"
    /\ frameSteps = <<>>
    /\ lScore = 0
    /\ rScore = 0
    /\ resetCheck = FALSE
    /\ Lights = InitLights
    /\ puckPosition = Centre
    /\ puckVelocity = ZeroVec
    /\ puckPos = Centre
    /\ out = <<>>
    /\ slept = 0
    /\ lGoals = 0
    /\ rGoals = 0
    /\ keyState = {}
    /\ mouseState = FALSE
    /\ cursorPos = IdleCursor
    /\ windowSize = FullWindow
    /\ prevMouse = FALSE
    /\ prevCursor = IdleCursor
    /\ forceCalls = <<>>
    /\ paddle_R = RedStart
    /\ paddle_B = BlueStart
    /\ f0_cursorPos = <<0, 0>>
    /\ isFirstClick = TRUE
    /\ gameObjName \in BounceOwners
    /\ gameObj = "nullptr"
    /\ rigidOBJ = "nullptr"
    /\ isInCollision = FALSE
    /\ reflectionVelocity = Indeterminate
    /\ repelVelocity = Indeterminate
    /\ trigger = NoRotation
    /\ inside = {}
    /\ bodyCalls = <<>>
    /\ event = "none"
    /\ countDown = 2000
    /\ dt = 0

frameVars == <<pc, frameSteps, scoreVars, glfwVars, inputVars>>

(* Awake() resolving the rigid body on every object *)
Awake_anyName ==
    /\ inside = {}
    /\ gameObj' = gameObjName
    /\ rigidOBJ' = "body"
    /\ bodyCalls' = <<>>
    /\ event' = "Awake"
    /\ UNCHANGED <<frameVars, timeVars, puckVelocity, gameObjName, isInCollision,
                   reflectionVelocity, repelVelocity, trigger, inside>>

(* BounceBehaviour::Awake(): the scene wakes the component while its       *)
(* object is inside no trigger volume                                      *)
Awake ==
    /\ inside = {}
    /\ gameObj' = gameObjName
    /\ rigidOBJ' = IF gameObjName = "Puck" THEN "body" ELSE rigidOBJ
    /\ bodyCalls' = <<>>
    /\ event' = "Awake"
    /\ UNCHANGED <<frameVars, timeVars, puckVelocity, gameObjName, isInCollision,
                   reflectionVelocity, repelVelocity, trigger, inside>>

(* the physics step between two callbacks gives the body a velocity *)
BodyMoves ==
    /\ \E v \in BodyVelocities : puckVelocity' = v
    /\ bodyCalls' = <<>>
    /\ event' = "physics"
    /\ UNCHANGED <<frameVars, timeVars, gameObjName, gameObj, rigidOBJ, isInCollision,
                   reflectionVelocity, repelVelocity, trigger, inside>>

(* BounceBehaviour::OnEnteredTrigger(trigger), the trigger's object having *)
(* one of the rotations rots: the object enters a volume it is not inside  *)
OnEnteredTriggerOf(rots) ==
    /\ Followed(puckVelocity)
    /\ Cardinality(inside) < MaxInside
    /\ \E rot \in rots \ inside :
         /\ trigger' = rot
         /\ inside' = inside \cup {rot}
         /\ IF rigidOBJ # "nullptr" /\ gameObj = "Puck"
            THEN LET refVelo == BounceImpulse(puckVelocity, rot)
                 IN  /\ isInCollision' = TRUE
                     /\ bodyCalls' = <<[fn |-> "resetVelocity", arg |-> ZeroVec],
                                       [fn |-> "ApplyImpulse", arg |-> refVelo]>>
                     /\ puckVelocity' = ApplyImpulse(resetVelocity, refVelo)
                     /\ reflectionVelocity' = refVelo
                     /\ repelVelocity' = Scale(Normalize(refVelo), 10000)
            ELSE /\ bodyCalls' = <<>>
                 /\ UNCHANGED <<isInCollision, puckVelocity, reflectionVelocity,
                                repelVelocity>>
    /\ event' = "OnEnteredTrigger"
    /\ UNCHANGED <<frameVars, timeVars, gameObjName, gameObj, rigidOBJ>>

OnEnteredTrigger == OnEnteredTriggerOf(TriggerRotations)

(* OnLeavingTrigger with the two lines that are commented out *)
OnLeavingTrigger_reapply ==
    /\ isInCollision' = FALSE
    /\ bodyCalls' = <<[fn |-> "resetVelocity", arg |-> ZeroVec],
                      [fn |-> "ApplyImpulse", arg |-> reflectionVelocity]>>
    /\ puckVelocity' = ApplyImpulse(resetVelocity, reflectionVelocity)
    /\ \E rot \in inside :
         /\ trigger' = rot
         /\ inside' = inside \ {rot}
    /\ event' = "OnLeavingTrigger"
    /\ UNCHANGED <<frameVars, timeVars, gameObjName, gameObj, rigidOBJ, reflectionVelocity,
                   repelVelocity>>

(* BounceBehaviour::OnLeavingTrigger(trigger): the object leaves one of    *)
(* the volumes it is inside                                                *)
OnLeavingTrigger ==
    /\ isInCollision' = FALSE
    /\ bodyCalls' = <<>>
    /\ \E rot \in inside :
         /\ trigger' = rot
         /\ inside' = inside \ {rot}
    /\ event' = "OnLeavingTrigger"
    /\ UNCHANGED <<frameVars, timeVars, puckVelocity, gameObjName, gameObj, rigidOBJ,
                   reflectionVelocity, repelVelocity>>

BounceNext ==
    \/ Awake
    \/ BodyMoves
    \/ OnEnteredTrigger
    \/ OnLeavingTrigger

BounceSpec == BounceInit /\ [][BounceNext]_vars

---------------------------------------------------------------------------
(* The game loop with the puck bouncing off the edges: the engine sends    *)
(* the trigger callbacks of the puck's BounceBehaviour from inside         *)
(* scene->DoPhysics                                                        *)

ArrowEnv ==
    {[keys |-> k, mouse |-> FALSE, cursor |-> IdleCursor, window |-> FullWindow] :
        k \in {{}, {"UP", "LEFT"}}}

EdgePositions == QuietPositions \cup {<<GoalLine, 0, -1000>>}
EdgeRotations == {RotZ(1000, 0), RotZ(600, 800)}

ArrowPollEvents == PollEventsOf(ArrowEnv)

PhysicsEnter ==
    /\ pc = "physics"
    /\ OnEnteredTriggerOf(EdgeRotations)

PhysicsLeave ==
    /\ pc = "physics"
    /\ OnLeavingTrigger

EdgePhysics == PhysicsStep(EdgePositions, {puckVelocity, <<3000, 4000, 0>>})

EdgeNext ==
    \/ ArrowPollEvents
    \/ CheckIsReseting
    \/ SleepReturn
    \/ ScoreCheckReset
    \/ PhysicsEnter
    \/ PhysicsLeave
    \/ EdgePhysics
    \/ Input
    \/ GoalDetection

EdgeSpec == Init /\ [][EdgeNext]_vars

---------------------------------------------------------------------------
(* The frame delta and the countdown loop of main *)

(* thisFrame - lastFrame, in thousandths of a second *)
Elapsed == {0, 16, 100, 500}

(* the Playback Speed slider, 0.0f to 10.0f *)
PlaybackSpeeds == {0, 1000, 2000, 10000}

(* dt is computed and multiplied by playbackSpeed, and the frame comes to  *)
(* the countdown loop                                                      *)
FrameDelta ==
    /\ pc = "head"
    /\ \E e \in Elapsed, playbackSpeed \in PlaybackSpeeds :
         dt' = (e * playbackSpeed) \div 1000
    /\ pc' = "countdown"
    /\ UNCHANGED <<countDown, frameSteps, puckVelocity, scoreVars, glfwVars, inputVars,
                   bounceVars>>

(* while (countDown > 0) countDown -= dt;  one iteration *)
CountDownStep ==
    /\ pc = "countdown"
    /\ countDown > 0
    /\ countDown' = countDown - dt
    /\ UNCHANGED <<pc, dt, frameSteps, puckVelocity, scoreVars, glfwVars, inputVars,
                   bounceVars>>

(* the test of the countdown loop fails and the frame goes on *)
CountDownExit ==
    /\ pc = "countdown"
    /\ ~(countDown > 0)
    /\ pc' = "head"
    /\ UNCHANGED <<countDown, dt, frameSteps, puckVelocity, scoreVars, glfwVars,
                   inputVars, bounceVars>>

CountNext ==
    \/ FrameDelta
    \/ CountDownStep
    \/ CountDownExit

CountSpec == Init /\ [][CountNext]_vars

(* the game thread keeps running *)
CountFairSpec == CountSpec /\ WF_vars(CountNext)

---------------------------------------------------------------------------
TypeOK ==
    /\ pc \in {"head", "reset", "sleep", "win", "physics", "input", "goal", "countdown"}
    /\ lScore \in 0..9
    /\ rScore \in 0..9
    /\ resetCheck \in BOOLEAN
    /\ slept \in 0..1

---------------------------------------------------------------------------
(* Shorthands of the properties *)

Lit(i) == Lights[i].Color = yellow
Unlit(i) == Lights[i].Color = black
AllPipsUnlit == \A i \in Pips : Unlit(i)
SomeWin == lScore >= WinScore \/ rScore >= WinScore
GoalAt(x) == x <= -GoalLine \/ x >= GoalLine

---------------------------------------------------------------------------
(* C1: a score counter changes only by one goal at a time, and it goes    *)
(* down only in the win reset: a step that lowers a counter starts with a *)
(* counter at 4, sets both counters to 0 together and sets resetCheck in  *)
(* the same step; and the win check that finds a counter at 4 always does *)
(* so.                                                                     *)
C1_ScoreMonotone ==
    [][/\ (lScore' < lScore \/ rScore' < rScore)
            => (SomeWin /\ lScore' = 0 /\ rScore' = 0 /\ resetCheck' = TRUE)
       /\ (lScore' > lScore => lScore' = lScore + 1 /\ lScore < WinScore)
       /\ (rScore' > rScore => rScore' = rScore + 1 /\ rScore < WinScore)
       /\ (pc = "win" /\ SomeWin)
            => (lScore' = 0 /\ rScore' = 0 /\ resetCheck' = TRUE)]_vars

C1_Witness ==
    /\ pc = "physics"
    /\ resetCheck = TRUE
    /\ out = <<"Blue">>
    /\ lScore = 0
    /\ rScore = 0
    /\ lGoals >= 1

(* C2: while fewer than 4 left goals and fewer than 4 right goals have    *)
(* been scored since the initial scene, exactly lights 1..lGoals and      *)
(* 5..4+rGoals are yellow and every other light of 1..8 is black.          *)
C2_LightsMirrorGoals ==
    (lGoals < WinScore /\ rGoals < WinScore)
        => /\ \A i \in 1..4 : IF i <= lGoals THEN Lit(i) ELSE Unlit(i)
           /\ \A i \in 5..8 : IF i <= 4 + rGoals THEN Lit(i) ELSE Unlit(i)

C2_Witness ==
    /\ lGoals = 3
    /\ rGoals = 2
    /\ Lit(3)
    /\ Lit(6)
    /\ Unlit(7)

(* C3: the goal detection scores exactly when the puck X it reads is at   *)
(* or beyond -17.6 or +17.6; for an X strictly between the lines (-17.59  *)
(* and +17.59 included) it changes no counter, no light colour, and not   *)
(* the puck's position or velocity.                                        *)
C3_GoalBoundary ==
    [][pc = "goal" =>
         LET x == puckPosition[1]
         IN  /\ GoalAt(x) <=> (lScore' + rScore' = lScore + rScore + 1)
             /\ ~GoalAt(x) =>
                  /\ UNCHANGED <<lScore, rScore, puckPosition, puckVelocity>>
                  /\ Lights' = FollowPuck(Lights, puckPosition)]_vars

C3_Witness ==
    /\ pc = "reset"
    /\ puckPos[1] = GoalLine
    /\ puckPosition = LeftServe
    /\ lScore = 1
    /\ Lit(1)

(* C4: a puck X at or beyond -17.6 adds one to rScore only, puts the puck *)
(* at (9.5, 0, -1) and zeroes its velocity; at or beyond +17.6 it adds    *)
(* one to lScore only, puts the puck at (-9.5, 0, -1) and zeroes its      *)
(* velocity.                                                               *)
C4_GoalEffect ==
    [][pc = "goal" =>
         LET x == puckPosition[1]
         IN  /\ x <= -GoalLine =>
                  /\ rScore' = rScore + 1
                  /\ lScore' = lScore
                  /\ puckPosition' = <<9500, 0, -1000>>
                  /\ puckVelocity' = <<0, 0, 0>>
             /\ x >= GoalLine =>
                  /\ lScore' = lScore + 1
                  /\ rScore' = rScore
                  /\ puckPosition' = <<-9500, 0, -1000>>
                  /\ puckVelocity' = <<0, 0, 0>>]_vars

C4_Witness ==
    /\ pc = "reset"
    /\ puckPos[1] < -GoalLine
    /\ puckPosition = RightServe
    /\ puckVelocity = ZeroVec
    /\ rScore = 2
    /\ lScore = 1

(* C5 as stated: both counters are in 0..3 in every reachable state.       *)
C5_Original ==
    /\ lScore \in 0..3
    /\ rScore \in 0..3

(* C5 (amended): both counters are in 0..4 in every reachable state, and  *)
(* in 0..3 from the return of the win check to the goal detection of the  *)
(* same frame; a counter is 4 only from the goal detection that scores    *)
(* the fourth goal to the win check of the next frame.                     *)
C5_ScoreRange ==
    /\ lScore \in 0..WinScore
    /\ rScore \in 0..WinScore
    /\ pc \in {"physics", "input", "goal"} => (lScore < WinScore /\ rScore < WinScore)

C5_Witness ==
    /\ lScore = WinScore
    /\ rScore = 3
    /\ pc = "win"

(* C6: the two counters are never both at 4 or more, and a call of        *)
(* scoreCheckReset prints at most one winner.                              *)
C6_OneWinner ==
    /\ ~(lScore >= WinScore /\ rScore >= WinScore)
    /\ Len(out) <= 1

C6_Witness ==
    /\ pc = "physics"
    /\ out = <<"Red">>
    /\ resetCheck = TRUE
    /\ rGoals = 3

(* C7: checkIsReseting with resetCheck false returns without a Sleep and  *)
(* leaves the puck position, the ten lights, both counters and the flag   *)
(* as they were.                                                           *)
C7_ResetNoOp ==
    [][(pc = "reset" /\ resetCheck = FALSE) =>
         /\ UNCHANGED <<puckPosition, Lights, lScore, rScore, resetCheck>>
         /\ pc' = "win"
         /\ slept' = 0]_vars

C7_Witness ==
    /\ pc = "win"
    /\ slept = 0
    /\ resetCheck = FALSE
    /\ Lit(1)
    /\ Lit(5)
    /\ puckPosition = RightServe

(* C8: checkIsReseting with resetCheck true puts the puck at (0, 0, 4),   *)
(* makes lights 1..8 black and clears the flag, then sleeps once: the     *)
(* three updates are in place while it sleeps and when it returns.         *)
C8_ResetEffect ==
    [][/\ (pc = "reset" /\ resetCheck = TRUE) =>
            /\ pc' = "sleep"
            /\ slept' = 0
            /\ puckPosition' = <<0, 0, 4000>>
            /\ AllPipsUnlit'
            /\ resetCheck' = FALSE
       /\ pc = "sleep" =>
            /\ pc' = "win"
            /\ slept' = 1
            /\ puckPosition' = <<0, 0, 4000>>
            /\ AllPipsUnlit'
            /\ resetCheck' = FALSE]_vars

C8_Witness ==
    /\ pc = "win"
    /\ slept = 1
    /\ puckPosition = Centre
    /\ AllPipsUnlit
    /\ resetCheck = FALSE
    /\ lGoals >= WinScore

(* C9: the flag is false when checkIsReseting has run, and in a frame     *)
(* whose checkIsReseting consumed the flag it is not set again up to the   *)
(* next frame boundary: it is never true at two frame boundaries in a row. *)
C9_FlagTransient ==
    /\ pc \in {"sleep", "win"} => resetCheck = FALSE
    /\ slept = 1 => resetCheck = FALSE

C9_Witness ==
    /\ pc = "reset"
    /\ slept = 1
    /\ resetCheck = FALSE
    /\ lScore + rScore = 1

(* C10: a counter at 4 is found by the win check of the frame that        *)
(* follows the goal, which zeroes the counters and sets the flag; the     *)
(* flag is consumed by the reset check of the frame after that, so a      *)
(* counter at 4 leads to the puck at the centre with lights 1..8 black.    *)
C10_WinResetFires ==
    /\ [](SomeWin => pc \in {"head", "reset", "sleep", "win"})
    /\ [](resetCheck = TRUE => pc \in {"physics", "input", "goal", "head", "reset"})
    /\ SomeWin ~> (lScore = 0 /\ rScore = 0 /\ resetCheck = TRUE)
    /\ SomeWin ~> (pc = "win" /\ slept = 1 /\ puckPosition = Centre /\ AllPipsUnlit)

C10_Witness ==
    /\ pc = "win"
    /\ slept = 1
    /\ puckPosition = Centre
    /\ AllPipsUnlit
    /\ lScore = 0
    /\ rScore = 0
    /\ lGoals = 0
    /\ rGoals >= WinScore

---------------------------------------------------------------------------
(* Shorthands of the properties of the frame and of the input handling *)

StepIndex(name) ==
    IF \E i \in 1..Len(frameSteps) : frameSteps[i] = name
    THEN CHOOSE i \in 1..Len(frameSteps) : frameSteps[i] = name
    ELSE 0
Done(name) == StepIndex(name) > 0
DoneBefore(a, b) == Done(a) /\ StepIndex(a) < StepIndex(b)
Down(k) == IF k \in keyState THEN 1 ELSE 0
FullFrame == <<"checkIsReseting", "scoreCheckReset", "physics", "input", "goal">>

RECURSIVE VSum(_)
VSum(calls) == IF calls = <<>> THEN <<0, 0, 0>> ELSE VAdd(Head(calls), VSum(Tail(calls)))

---------------------------------------------------------------------------
(* C11 as stated: in every frame the physics step has completed when the  *)
(* goal detection reads the puck position and when scoreCheckReset tests  *)
(* the counters.                                                           *)
C11_Original ==
    /\ Done("goal") => DoneBefore("physics", "goal")
    /\ Done("scoreCheckReset") => DoneBefore("physics", "scoreCheckReset")

(* C11 (amended): in every frame the physics step has completed when the  *)
(* goal detection reads the puck position; scoreCheckReset tests the      *)
(* counters at the head of the frame, before the physics step of that     *)
(* frame.                                                                  *)
C11_PhysicsBeforeGoal ==
    /\ Done("goal") => DoneBefore("physics", "goal")
    /\ pc = "goal" => Done("physics")
    /\ Done("physics") => DoneBefore("scoreCheckReset", "physics")
    /\ pc = "win" => ~Done("physics")

C11_Witness ==
    /\ pc = "head"
    /\ frameSteps = FullFrame
    /\ puckPos[1] >= GoalLine
    /\ lScore = 1

(* C12: in every frame checkIsReseting has returned when scoreCheckReset  *)
(* runs, and both have returned when the keys, the button and the cursor  *)
(* are read; the flag is set only by scoreCheckReset and cleared only by  *)
(* a checkIsReseting that runs before the scoreCheckReset of its frame,   *)
(* so a flag set in one frame is consumed at the start of the next.        *)
C12_ResetWinInput ==
    /\ [](/\ Done("scoreCheckReset") => DoneBefore("checkIsReseting", "scoreCheckReset")
          /\ Done("input") => /\ DoneBefore("checkIsReseting", "input")
                              /\ DoneBefore("scoreCheckReset", "input")
          /\ pc = "input" => (Done("checkIsReseting") /\ Done("scoreCheckReset")))
    /\ [][/\ (resetCheck = FALSE /\ resetCheck' = TRUE)
               => (~Done("scoreCheckReset") /\ Done("scoreCheckReset")'
                   /\ Done("checkIsReseting") /\ ~Done("input"))
          /\ (resetCheck = TRUE /\ resetCheck' = FALSE)
               => (frameSteps = <<>> /\ pc = "reset")]_vars

C12_Witness ==
    /\ pc = "goal"
    /\ frameSteps = <<"checkIsReseting", "scoreCheckReset", "physics", "input">>
    /\ resetCheck = TRUE
    /\ out = <<"Red">>

(* C17: the ApplyForce calls of a frame are one 10-unit force for each    *)
(* arrow key that is down, UP +Y, DOWN -Y, RIGHT +X, LEFT -X, so their    *)
(* sum is the sum of the forces of the pressed keys, and with no arrow    *)
(* key down no force is applied.                                           *)
C17_KeyForce ==
    [][pc = "input" =>
         /\ Len(forceCalls') = Down("UP") + Down("DOWN") + Down("RIGHT") + Down("LEFT")
         /\ VSum(forceCalls') = <<10000 * (Down("RIGHT") - Down("LEFT")),
                                  10000 * (Down("UP") - Down("DOWN")), 0>>
         /\ \A i \in 1..Len(forceCalls') :
              forceCalls'[i] \in {<<0, 10000, 0>>, <<0, -10000, 0>>,
                                  <<10000, 0, 0>>, <<-10000, 0, 0>>}
         /\ (keyState \cap ArrowKeys = {}) => forceCalls' = <<>>]_vars

C17_Witness ==
    /\ pc = "goal"
    /\ keyState = {"UP", "RIGHT"}
    /\ forceCalls = << <<0, 10000, 0>>, <<10000, 0, 0>> >>

(* C18 as stated: every pressed key of W, A, S, D moves the blue paddle   *)
(* by 0.1 in its direction from its position at the start of the frame,   *)
(* for every combination of pressed keys.                                  *)
C18_Original ==
    [][pc = "input" =>
         paddle_B' = <<paddle_B[1] + 100 * (Down("D") - Down("A")),
                       paddle_B[2] + 100 * (Down("W") - Down("S")),
                       paddle_B[3]>>]_vars

(* C19 as stated: on the first frame of every press of the mouse button   *)
(* the cursor is latched and the red paddle does not move.                 *)
C19_Original ==
    [][(pc = "input" /\ mouseState /\ ~prevMouse) =>
         /\ paddle_R' = paddle_R
         /\ f0_cursorPos' = cursorPos]_vars

(* C19 (amended): on the first frame in which the button is found down    *)
(* since the program started the cursor is latched, isFirstClick becomes  *)
(* false and the red paddle does not move; isFirstClick never becomes     *)
(* true again, so on the first frame of a later press the paddle moves by *)
(* 20 times the cursor delta like on any other frame the button is held.  *)
C19_FirstClickOnly ==
    [][/\ (pc = "input" /\ mouseState /\ isFirstClick) =>
            /\ paddle_R' = paddle_R
            /\ f0_cursorPos' = cursorPos
            /\ isFirstClick' = FALSE
       /\ isFirstClick = FALSE => isFirstClick' = FALSE
       /\ (pc = "input" /\ mouseState /\ ~prevMouse /\ ~isFirstClick) =>
            /\ f0_cursorPos = prevCursor
            /\ paddle_R' = <<paddle_R[1] + ((cursorPos[1] - prevCursor[1]) * 40000) \div windowSize[1],
                             paddle_R[2] - ((cursorPos[2] - prevCursor[2]) * 40000) \div windowSize[2],
                             paddle_R[3]>>]_vars

C19_Witness ==
    /\ pc = "goal"
    /\ mouseState
    /\ ~prevMouse
    /\ ~isFirstClick
    /\ cursorPos # prevCursor
    /\ paddle_R = <<RedStart[1] + 2000, RedStart[2] + 2000, RedStart[3]>>

(* C20: on a frame in which the button is down and that is not the first  *)
(* such frame, the red paddle moves by 20 * ((cx - bx) / (w / 2),         *)
(* -(cy - by) / (h / 2), 0) with (bx, by) the baseline; the baseline is   *)
(* set to the cursor at the end of the input handling of every frame, so  *)
(* it is the previous frame's cursor when the paddle is moved.             *)
C20_DragDelta ==
    /\ [][pc = "input" =>
            /\ (mouseState /\ ~isFirstClick) =>
                 paddle_R' = <<paddle_R[1] + ((cursorPos[1] - f0_cursorPos[1]) * 40000) \div windowSize[1],
                               paddle_R[2] - ((cursorPos[2] - f0_cursorPos[2]) * 40000) \div windowSize[2],
                               paddle_R[3]>>
            /\ f0_cursorPos' = cursorPos]_vars
    /\ [](Done("input") => f0_cursorPos = cursorPos)
    /\ []((pc \in {"reset", "sleep", "win", "physics", "input"} /\ ~isFirstClick)
            => f0_cursorPos = prevCursor)

C20_Witness ==
    /\ pc = "goal"
    /\ mouseState
    /\ prevMouse
    /\ windowSize = FullWindow
    /\ cursorPos = <<1008, 513>>
    /\ prevCursor = IdleCursor
    /\ f0_cursorPos = cursorPos
    /\ paddle_R = <<RedStart[1] + 1000, RedStart[2] + 1000, RedStart[3]>>

---------------------------------------------------------------------------
(* Shorthands of the properties of the bounce *)

Handled == rigidOBJ # "nullptr" /\ gameObj = "Puck"
ResetThenImpulse(v) ==
    <<[fn |-> "resetVelocity", arg |-> <<0, 0, 0>>], [fn |-> "ApplyImpulse", arg |-> v]>>
PlaneSpeed(V) == Sqrt(V[1] * V[1] + V[2] * V[2])
HasDirection(V) ==
    /\ V[1] < NaN /\ V[2] < NaN /\ V[3] < NaN
    /\ PlaneSpeed(V) > 0
    /\ PlaneSpeed(V) * PlaneSpeed(V) = V[1] * V[1] + V[2] * V[2]
UnitOf(V) == <<(V[1] * 1000) \div PlaneSpeed(V), (V[2] * 1000) \div PlaneSpeed(V)>>
InwardNormal(rot) == <<-rot[2][1], rot[2][2]>>
IsUnit(n) == n[1] * n[1] + n[2] * n[2] = 1000000
Reflected(v, n) ==
    LET d == (v[1] * n[1] + v[2] * n[2]) \div 1000
    IN  <<v[1] - (2 * d * n[1]) \div 1000, v[2] - (2 * d * n[2]) \div 1000>>
LawImpulse(V, n) ==
    LET r == Reflected(UnitOf(V), n)
    IN  <<(r[1] * PlaneSpeed(V)) \div 2000, (r[2] * PlaneSpeed(V)) \div 2000, 0>>

(* C13: on an object that is not named "Puck" no step of the component    *)
(* changes isInCollision, reflectionVelocity or repelVelocity, rigidOBJ   *)
(* stays nullptr, and no step calls resetVelocity or ApplyImpulse.         *)
C13_IdentityFilter ==
    /\ [](gameObjName # "Puck" =>
            /\ rigidOBJ = "nullptr"
            /\ isInCollision = FALSE
            /\ reflectionVelocity = Indeterminate
            /\ repelVelocity = Indeterminate
            /\ bodyCalls = <<>>)
    /\ [][(gameObjName # "Puck" /\ event' \in {"Awake", "OnEnteredTrigger"}) =>
            /\ UNCHANGED <<isInCollision, reflectionVelocity, repelVelocity,
                           rigidOBJ, puckVelocity>>
            /\ bodyCalls' = <<>>]_vars

C13_Witness ==
    /\ gameObjName = "Edge"
    /\ gameObj = "Edge"
    /\ event = "OnEnteredTrigger"
    /\ trigger = RotZ(600, 800)
    /\ puckVelocity = <<3000, 4000, 0>>
    /\ rigidOBJ = "nullptr"

(* C14: when OnEnteredTrigger is handled for the puck, the flattened      *)
(* velocity V has unit direction v and the inward normal n is a unit      *)
(* vector, the handler calls resetVelocity and then ApplyImpulse with     *)
(* (v - 2*dot(v,n)*n) * 0.5 * |V|, and reflectionVelocity is that vector.  *)
C14_ReflectionLaw ==
    [][(/\ event' = "OnEnteredTrigger"
        /\ Handled
        /\ HasDirection(puckVelocity)
        /\ IsUnit(InwardNormal(trigger')))
       => /\ bodyCalls' = ResetThenImpulse(LawImpulse(puckVelocity, InwardNormal(trigger')))
          /\ reflectionVelocity' = LawImpulse(puckVelocity, InwardNormal(trigger'))]_vars

C14_Witness ==
    /\ event = "OnEnteredTrigger"
    /\ trigger = RotZ(600, 800)
    /\ bodyCalls = ResetThenImpulse(<<-700, 2400, 0>>)
    /\ reflectionVelocity = <<-700, 2400, 0>>
    /\ isInCollision = TRUE

(* C15 as stated: after every trigger-enter handled for the puck the      *)
(* speed of the body is a number and is half its speed before.             *)
C15_Original ==
    [][(event' = "OnEnteredTrigger" /\ Handled) =>
         IF HasNaN(puckVelocity) \/ HasNaN(puckVelocity')
         THEN FALSE
         ELSE 2 * Length(puckVelocity') = Length(puckVelocity)]_vars

(* C16: OnLeavingTrigger sets isInCollision to false, leaves the body's   *)
(* velocity, reflectionVelocity and repelVelocity as they are and calls   *)
(* neither resetVelocity nor ApplyImpulse.                                 *)
C16_LeaveClearsFlagOnly ==
    [][event' = "OnLeavingTrigger" =>
         /\ isInCollision' = FALSE
         /\ bodyCalls' = <<>>
         /\ UNCHANGED <<puckVelocity, reflectionVelocity, repelVelocity,
                        rigidOBJ, gameObj>>]_vars

C16_Witness ==
    /\ event = "OnLeavingTrigger"
    /\ isInCollision = FALSE
    /\ reflectionVelocity = <<1500, -2000, 0>>
    /\ repelVelocity = <<6000, -8000, 0>>
    /\ puckVelocity = <<1500, -2000, 0>>

---------------------------------------------------------------------------
(* Shorthands of the properties of the lights *)

Raised(pos) == <<pos[1], pos[2], pos[3] + 3000>>
SameColours(I) == \A i \in I : Lights'[i].Color = Lights[i].Color
FrameEnded == pc = "head" /\ Done("goal")

(* C21: when the goal detection of a frame has run, light 9 is at the     *)
(* puck's position raised by 3 in z, the position the puck has after a    *)
(* teleport of that frame.                                                 *)
C21_LightFollowsPuck ==
    /\ [](Done("goal") => Lights[9].Position = Raised(puckPosition))
    /\ [][pc = "goal" => Lights'[9].Position = Raised(puckPosition')]_vars

C21_Witness ==
    /\ FrameEnded
    /\ puckPos[1] >= GoalLine
    /\ puckPosition = LeftServe
    /\ Lights[9].Position = <<-9500, 0, 2000>>

(* C22: light 0 keeps its initial position and colour and light 9 keeps   *)
(* its initial colour through every goal, win and reset.                   *)
C22_AmbientAndSpot ==
    /\ Lights[0] = InitLights[0]
    /\ Lights[9].Color = InitLights[9].Color

C22_Witness ==
    /\ pc = "win"
    /\ slept = 1
    /\ lGoals = WinScore
    /\ rGoals >= 1
    /\ AllPipsUnlit
    /\ Lights[0].Color = <<1000, 1000, 1000>>
    /\ Lights[9].Color = <<43, 43, 0>>

(* C23 as stated: the light a goal sets to yellow was black immediately   *)
(* before that goal.                                                       *)
C23_Original ==
    [][pc = "goal" =>
         /\ lScore' = lScore + 1 => Unlit(lScore + 1)
         /\ rScore' = rScore + 1 => Unlit(rScore + 1 + 4)]_vars

(* C25 as stated: while resetCheck is false and both counters are below 4 *)
(* the yellow lights of 1..4 are 1..lScore and the yellow lights of 5..8  *)
(* are 5..4+rScore.                                                        *)
C25_Original ==
    (resetCheck = FALSE /\ lScore < WinScore /\ rScore < WinScore)
        => /\ \A i \in 1..4 : Lit(i) <=> i <= lScore
           /\ \A i \in 5..8 : Lit(i) <=> i <= 4 + rScore

(* C26: a left goal writes one light, of index lScore' in 1..4, a right   *)
(* goal writes one light, of index rScore' + 4 in 5..8, no other colour   *)
(* changes in the goal detection, and no counter exceeds 4.                *)
C26_IndexInRange ==
    /\ [](lScore <= WinScore /\ rScore <= WinScore)
    /\ [][pc = "goal" =>
            /\ lScore' # lScore =>
                 /\ lScore' \in 1..4
                 /\ Lights'[lScore'].Color = yellow
                 /\ SameColours(LightIdx \ {lScore'})
            /\ rScore' # rScore =>
                 /\ rScore' + 4 \in 5..8
                 /\ Lights'[rScore' + 4].Color = yellow
                 /\ SameColours(LightIdx \ {rScore' + 4})
            /\ (lScore' = lScore /\ rScore' = rScore) => SameColours(LightIdx)
            /\ DOMAIN Lights' = LightIdx]_vars

C26_Witness ==
    /\ FrameEnded
    /\ rScore = WinScore
    /\ Lit(8)
    /\ lScore = 3
    /\ Lit(3)
    /\ Unlit(4)

(* C27: the counters grow only in the goal detection, which runs once in  *)
(* a frame, and there by at most one goal: a goal on one side teleports   *)
(* the puck to the serve position and leaves the other counter alone.      *)
C27_OneGoalPerFrame ==
    [][/\ lScore' + rScore' <= lScore + rScore + 1
       /\ lScore' + rScore' > lScore + rScore => pc = "goal"
       /\ (pc = "goal" /\ rScore' = rScore + 1) =>
            (lScore' = lScore /\ puckPosition' = RightServe /\ puckPosition[1] <= -GoalLine)
       /\ (pc = "goal" /\ lScore' = lScore + 1) =>
            (rScore' = rScore /\ puckPosition' = LeftServe /\ puckPosition[1] >= GoalLine)
       /\ pc = "goal" => ~Done("goal")]_vars

C27_Witness ==
    /\ FrameEnded
    /\ puckPos[1] <= -GoalLine
    /\ puckPosition = RightServe
    /\ rScore = 1
    /\ lScore = 2

(* C24: outside scene->DoPhysics no step of the game loop changes         *)
(* isInCollision, reflectionVelocity or repelVelocity or calls            *)
(* resetVelocity or ApplyImpulse; the input handling leaves the puck's    *)
(* velocity as it is and applies the key forces only; the one change of   *)
(* the velocity outside the physics step is the reset to zero on a goal.   *)
C24_NoContinuousBounce ==
    [][pc # "physics" =>
         /\ UNCHANGED <<isInCollision, reflectionVelocity, repelVelocity, bodyCalls>>
         /\ pc = "input" =>
              /\ puckVelocity' = puckVelocity
              /\ \A i \in 1..Len(forceCalls') :
                   forceCalls'[i] \in {<<0, 10000, 0>>, <<0, -10000, 0>>,
                                       <<10000, 0, 0>>, <<-10000, 0, 0>>}
              /\ Len(forceCalls') = Cardinality(keyState \cap ArrowKeys)
         /\ puckVelocity' # puckVelocity =>
              /\ pc = "goal"
              /\ puckVelocity' = <<0, 0, 0>>
              /\ lScore' + rScore' = lScore + rScore + 1]_vars

C24_Witness ==
    /\ pc = "goal"
    /\ Done("input")
    /\ isInCollision = TRUE
    /\ repelVelocity = <<6000, -8000, 0>>
    /\ puckVelocity = <<1500, -2000, 0>>
    /\ keyState = {"UP", "LEFT"}

(* C28 as stated: for the puck's component, once awake, isInCollision is  *)
(* true exactly while the puck is inside at least one trigger volume.      *)
C28_Original ==
    (gameObjName = "Puck" /\ rigidOBJ # "nullptr")
        => (isInCollision = TRUE <=> inside # {})

(* C29 as stated: whenever the frame is in the countdown loop, it leaves  *)
(* the loop.                                                               *)
C29_Original == (pc = "countdown") ~> (pc # "countdown")

(* C30 as stated: a trigger-enter handled for the puck with a zero        *)
(* flattened velocity or a zero flattened normal applies the zero impulse *)
(* and caches vectors without NaN.                                         *)
C30_Original ==
    [][(/\ event' = "OnEnteredTrigger"
        /\ Handled
        /\ puckVelocity[1] < NaN /\ puckVelocity[2] < NaN /\ puckVelocity[3] < NaN
        /\ \/ puckVelocity[1] = 0 /\ puckVelocity[2] = 0
           \/ InwardNormal(trigger') = <<0, 0>>)
       => /\ bodyCalls' = ResetThenImpulse(<<0, 0, 0>>)
          /\ \A i \in 1..3 : reflectionVelocity'[i] < NaN /\ repelVelocity'[i] < NaN]_vars

====
